---- MODULE Spec2Model ----
(***************************************************************************)
(* InventoryDataExtractor (src/product_extractor.py): one run of the       *)
(* extractor against a page driver.  The driver, the session file and the  *)
(* page are the environment: every answer they give (an element or none,   *)
(* a timeout, an error) is chosen nondeterministically where the code      *)
(* asks for it.  Texts are sequences of characters; " " is whitespace.     *)
(*                                                                         *)
(* A capture made inside an except handler (screenshot, HTML dump) is      *)
(* taken to succeed: the handlers run on a live page after a timeout.      *)
(***************************************************************************)
EXTENDS Integers, Sequences, FiniteSets, TLC

\* ------------------------------------------------------------------ bounds
MaxPages == 2
MaxRows == 2
MaxHeaders == 2
MaxCells == 3
MaxContainers == 2

VARIABLES
    pc,             \* position of the flow of control in run
    exc,            \* "none", or the method an error is propagating from
    browser,        \* "none" | "open" | "closed" | "released" (taken down with the driver)
    context,        \* "none" | "open" | "closed" | "released"
    session_file0,  \* session_data.json as it was before the run
    session_file,   \* session_data.json now: "absent" | "valid" | "corrupt"
    session_loaded, \* run's local, line 34
    login_probe,    \* what is_login_page's wait met: "none" | "found" | "timeout"
    called,         \* the methods run has invoked, in order
    storage_state,  \* save_session's captured state: [captured, cookies, origins]
    session_writes, \* how often session_data.json was written in this run
    logged,         \* log records emitted (by key)
    artifacts,      \* diagnostic files written
    faults,         \* driver / file operations that raised
    nav_log,        \* navigator events, in order
    table,          \* extract's local `table`: "unset" | "element" | "None"
    header_text,    \* text_content() of the header cells, as read
    headers,        \* extract's local `headers`
    products,       \* extract's local `products`
    page_num,       \* extract's local `page_num`
    more_pages,     \* extract's local `more_pages`
    shown,          \* per processed page, the rows the driver returned
    next_log,       \* per processed page, the Next control met and what followed
    product_elements, \* fallback: the containers the driver returned
    element_idx,    \* fallback: index of the next container to process
    element_log,    \* fallback: per processed container, whether it yielded a record
    product_data,   \* run's local, line 47: <<>> or <<the returned list>>
    output_file,    \* the result file: <<>> or <<the list written>>
    output_writes   \* how often the result file was written

ctlVars == <<pc, exc, faults, artifacts, logged>>
resVars == <<browser, context>>
sessVars == <<session_file0, session_file, session_loaded, login_probe, storage_state,
              session_writes>>
navVars == <<nav_log>>
tableVars == <<header_text, headers, page_num, more_pages, shown, next_log>>
fallbackVars == <<product_elements, element_idx, element_log>>
outVars == <<product_data, output_file, output_writes>>
vars == <<ctlVars, resVars, sessVars, called, navVars, table, products, tableVars,
          fallbackVars, outVars>>

\* ------------------------------------------------------------------ helpers
SeqsUpTo(S, n) == UNION {[1..k -> S] : k \in 0..n}

Range(s) == {s[i] : i \in DOMAIN s}

Min(a, b) == IF a < b THEN a ELSE b

IsSpace(c) == c = " "

RECURSIVE LStrip(_)
LStrip(s) == IF s = <<>> THEN s
             ELSE IF IsSpace(Head(s)) THEN LStrip(Tail(s)) ELSE s

RECURSIVE RStrip(_)
RStrip(s) == IF s = <<>> THEN s
             ELSE IF IsSpace(s[Len(s)]) THEN RStrip(SubSeq(s, 1, Len(s) - 1)) ELSE s

\* str.strip()
Strip(s) == RStrip(LStrip(s))

\* A dict, in insertion order: a sequence of [k, v] with distinct k.
Keys(d) == {d[j].k : j \in DOMAIN d}
Get(d, key) == d[CHOOSE j \in DOMAIN d : d[j].k = key].v

\* d[key] = val
DictSetKeepFirst(d, key, val) ==
    IF key \in Keys(d) THEN d ELSE Append(d, [k |-> key, v |-> val])
DictSet(d, key, val) ==
    IF key \in Keys(d)
    THEN [j \in DOMAIN d |-> IF d[j].k = key THEN [k |-> key, v |-> val] ELSE d[j]]
    ELSE Append(d, [k |-> key, v |-> val])

\* lines 186-189: for i, cell in enumerate(cells): if i < len(headers): ...
RECURSIVE CellLoop(_, _, _, _)
CellLoop(hs, cells, i, product) ==
    IF i > Len(cells) THEN product
    ELSE CellLoop(hs, cells, i + 1,
                  IF i <= Len(hs) THEN DictSet(product, hs[i], Strip(cells[i]))
                  ELSE product)

\* lines 184-189: the record of one row
RowProduct(hs, cells) == CellLoop(hs, cells, 1, <<>>)

\* lines 175-176
StripAll(texts) == [i \in DOMAIN texts |-> Strip(texts[i])]

\* ------------------------------------------------------------------ control
\* The flow moves to `to`; `fs` are the operations that raised on the way,
\* `arts` the diagnostic files written, `logs` the log records emitted.
Step(to, fs, arts, logs) ==
    /\ pc' = to
    /\ exc' = exc
    /\ faults' = faults \cup fs
    /\ artifacts' = artifacts \cup arts
    /\ logged' = logged \cup logs

\* An error leaves `method` and propagates out of run's body.
Raise(method, fs, arts, logs) ==
    /\ pc' = "unwind"
    /\ exc' = method
    /\ faults' = faults \cup fs
    /\ artifacts' = artifacts \cup arts
    /\ logged' = logged \cup logs

\* ------------------------------------------------------------------ the page, as the driver reports it
HeaderTexts == {<<"h">>, <<" ", "h">>, <<"k">>}
CellTexts == {<<"a">>, <<" ", "b", " ">>, <<" ">>}

\* The 'Next' control after a page: none, one without a disabled attribute,
\* <button disabled> (get_attribute gives ""), <button disabled="disabled">.
NextControls == {"absent", "enabled", "disabled_bare", "disabled_value"}

\* line 193: next_button.get_attribute("disabled"), for a control that exists
GetAttribute(control) ==
    CASE control = "enabled" -> "None"
      [] control = "disabled_bare" -> ""
      [] control = "disabled_value" -> "disabled"

\* Python truth of get_attribute's result: None and "" are false.
Truthy(attr) == attr \notin {"None", ""}

\* line 193: if next_button and not await next_button.get_attribute("disabled")
ClicksNextNever(control) == FALSE
ClicksNext(control) == control # "absent" /\ ~Truthy(GetAttribute(control))

\* ------------------------------------------------------------------ extract_product_data, table mode
\* lines 224-227: except Exception: log, screenshot, raise
ExtractSwallow(fs, arts) ==
    Step("save_to_json", fs, arts \cup {"extraction_error.png"}, {"Data extraction failed"})
ExtractRaise(fs, arts) ==
    Raise("extract_product_data", fs, arts \cup {"extraction_error.png"},
          {"Data extraction failed"})

\* line 228 and line 47: return products; product_data = ...
ReturnProducts(result) ==
    /\ products' = result
    /\ product_data' = <<result>>

\* lines 173 and 202: if table: ... else: ...
AfterProbeFallback(t) == "fallback"
AfterProbe(t) == IF t = "element" THEN "read_headers" ELSE "fallback"

\* lines 168-173 (and 202): products = [], the screenshot, the table probe
ExtractProbe ==
    /\ pc = "extract_product_data"
    /\ called' = Append(called, "extract_product_data")
    /\ products' = <<>>
    /\ \/ /\ ExtractRaise({"extract.screenshot"}, {})
          /\ table' = table
       \/ /\ ExtractRaise({"extract.query_selector"}, {"before_extraction.png"})
          /\ table' = table
       \/ \E t \in {"element", "None"} :
            /\ table' = t
            /\ Step(AfterProbe(t), {}, {"before_extraction.png"}, {})
    /\ UNCHANGED <<resVars, sessVars, navVars, tableVars, fallbackVars, outVars>>

\* lines 174-178: the header cells, read once; more_pages = True; page_num = 1
ReadHeaders(HeaderLists) ==
    /\ pc = "read_headers"
    /\ \/ /\ ExtractRaise({"headers.query_selector_all"}, {})
          /\ UNCHANGED <<header_text, headers, more_pages, page_num>>
       \/ \E texts \in HeaderLists :
            /\ header_text' = texts
            /\ headers' = StripAll(texts)
            /\ more_pages' = TRUE
            /\ page_num' = 1
            /\ Step("process_page", {}, {}, {})
    /\ UNCHANGED <<resVars, sessVars, called, navVars, table, products, shown, next_log,
                   fallbackVars, outVars>>

\* lines 183-190, for the rows of one page
PageProductsSkipFirst(hs, rows) == [r \in 1..(Len(rows) - 1) |-> RowProduct(hs, rows[r + 1])]
PageProducts(hs, rows) == [r \in DOMAIN rows |-> RowProduct(hs, rows[r])]

\* lines 181-190 under the try of line 169: an error of the row wait or of a
\* row or cell read is not caught in the loop and reaches lines 224-227
RowsSkip(fs) == Step("next_probe", fs, {}, {})
RowsRaise(fs) == ExtractRaise(fs, {})

\* lines 179-190: one pass of the while loop up to the Next probe.  No row
\* visible: wait_for_selector times out.  A row or cell read may raise after
\* some rows were appended.
ProcessPage(RowLists) ==
    /\ pc = "process_page"
    /\ more_pages
    /\ \E rows \in RowLists :
         /\ shown' = Append(shown, rows)
         /\ \/ /\ rows = <<>>
               /\ RowsRaise({})
               /\ products' = products
            \/ /\ rows # <<>>
               /\ \E n \in 0..(Len(rows) - 1) :
                    products' = products \o PageProducts(headers, SubSeq(rows, 1, n))
               /\ RowsRaise({"rows.read"})
            \/ /\ rows # <<>>
               /\ products' = products \o PageProducts(headers, rows)
               /\ Step("next_probe", {}, {}, {})
    /\ UNCHANGED <<resVars, sessVars, called, navVars, table, header_text, headers,
                   page_num, more_pages, next_log, fallbackVars, outVars>>

\* lines 194-196 and 199-200: page_num += 1 comes after the click and the
\* idle wait, so an error of either leaves it as it was
PageNumAfterClick(n, outcome) == n + 1
PageNumAfter(n, outcome) == IF outcome = "ok" THEN n + 1 ELSE n

\* lines 191-201 and 228: the Next probe; a click and the idle wait when the
\* control passes the test of line 193; the loop's end and the return.  A
\* click on a disabled control fails its actionability wait and raises.
NextProbe ==
    /\ pc = "next_probe"
    /\ \/ \* the probe itself raises: except -> more_pages = False
          /\ next_log' = Append(next_log, [control |-> "absent", click |-> "none"])
          /\ more_pages' = FALSE
          /\ page_num' = page_num
          /\ ReturnProducts(products)
          /\ Step("save_to_json", {"next.query_selector"}, {}, {})
       \/ \E control \in NextControls :
            /\ ~ClicksNext(control)
            /\ next_log' = Append(next_log, [control |-> control, click |-> "none"])
            /\ more_pages' = FALSE
            /\ page_num' = page_num
            /\ ReturnProducts(products)
            /\ Step("save_to_json", {}, {}, {})
       \/ \E control \in NextControls, outcome \in {"ok", "click_error", "idle_error"} :
            /\ outcome = "ok" => page_num < MaxPages
            /\ ClicksNext(control)
            /\ control # "enabled" => outcome = "click_error"
            /\ next_log' = Append(next_log, [control |-> control, click |-> outcome])
            /\ page_num' = PageNumAfter(page_num, outcome)
            /\ IF outcome = "ok"
               THEN /\ more_pages' = more_pages
                    /\ UNCHANGED <<products, product_data>>
                    /\ Step("process_page", {}, {}, {})
               ELSE /\ more_pages' = FALSE
                    /\ ReturnProducts(products)
                    /\ Step("save_to_json",
                            IF control # "enabled" THEN {}
                            ELSE IF outcome = "click_error" THEN {"next.click"}
                            ELSE {"next.wait_for_load_state"},
                            {}, {})
    /\ UNCHANGED <<resVars, sessVars, called, navVars, table, header_text, headers,
                   shown, output_file, output_writes, fallbackVars>>

\* ------------------------------------------------------------------ extract_product_data, fallback mode
\* A container as the driver reports it: whether a name-like and a price-like
\* sub-element match, and the step of its processing that raises, if any.
ContainerKinds == [has_name : BOOLEAN, has_price : BOOLEAN,
                   err : {"none", "name", "price", "content"}]

\* Texts of the i-th container: its position, in unary, after a letter.
Mark(letter, i) == <<letter>> \o [j \in 1..i |-> "i"]

NameKey == <<"Name">>
PriceKey == <<"Price">>
ContentKey == <<"Content">>
\* line 221: {"Content": "Page content extracted, see HTML file"}
Placeholder == <<[k |-> ContentKey, v |-> <<"Page content extracted, see HTML file">>]>>

\* lines 206-215: the record built from container i, up to the append
ElementProductContentWithoutName(e, i) ==
    LET named == IF e.has_name THEN DictSet(<<>>, NameKey, Mark("n", i)) ELSE <<>>
        priced == IF e.has_price THEN DictSet(named, PriceKey, Mark("p", i)) ELSE named
    IN  IF named = <<>> THEN DictSet(priced, ContentKey, Mark("t", i)) ELSE priced
ElementProduct(e, i) ==
    LET named == IF e.has_name THEN DictSet(<<>>, NameKey, Mark("n", i)) ELSE <<>>
        priced == IF e.has_price THEN DictSet(named, PriceKey, Mark("p", i)) ELSE named
    IN  IF priced = <<>> THEN DictSet(priced, ContentKey, Mark("t", i)) ELSE priced

\* lines 207-218: whether processing container e raises before the append
ElementRaises(e) ==
    \/ e.err = "name"
    \/ e.err = "price"
    \/ e.err = "content" /\ ~e.has_name /\ ~e.has_price

\* line 204: the containers
FallbackQuery(ElementLists) ==
    /\ pc = "fallback"
    /\ \/ /\ ExtractRaise({"fallback.query_selector_all"}, {})
          /\ UNCHANGED fallbackVars
       \/ \E els \in ElementLists :
            /\ product_elements' = els
            /\ element_idx' = 1
            /\ element_log' = <<>>
            /\ Step("fallback_element", {}, {}, {"No table found"})
    /\ UNCHANGED <<resVars, sessVars, called, navVars, table, products, tableVars, outVars>>

\* lines 207-218: the record is appended (line 216) unless the try raised
FallbackAppend(e, i) ==
    IF ElementRaises(e) THEN products ELSE Append(products, ElementProduct(e, i))

\* lines 205-218: one pass of the for loop
FallbackElement ==
    /\ pc = "fallback_element"
    /\ element_idx <= Len(product_elements)
    /\ LET e == product_elements[element_idx]
       IN  /\ products' = FallbackAppend(e, element_idx)
           /\ element_log' = Append(element_log, ~ElementRaises(e))
           /\ Step("fallback_element", {},  {},
                   IF ElementRaises(e) THEN {"Error extracting product data"} ELSE {})
    /\ element_idx' = element_idx + 1
    /\ UNCHANGED <<resVars, sessVars, called, navVars, table, product_elements, tableVars,
                   outVars>>

\* lines 219-223 and 228: the placeholder and the page dump when nothing was
\* collected; the return
FallbackFinish ==
    /\ pc = "fallback_element"
    /\ element_idx > Len(product_elements)
    /\ \/ /\ products # <<>>
          /\ ReturnProducts(products)
          /\ Step("save_to_json", {}, {}, {})
       \/ /\ products = <<>>
          /\ ReturnProducts(Append(products, Placeholder))
          /\ Step("save_to_json", {}, {"product_page.html"}, {})
       \/ /\ products = <<>>
          /\ ExtractRaise({"fallback.content"}, {})
          /\ UNCHANGED <<products, product_data>>
       \/ /\ products = <<>>
          /\ products' = Append(products, Placeholder)
          /\ product_data' = product_data
          /\ ExtractRaise({"fallback.write"}, {})
    /\ UNCHANGED <<resVars, sessVars, called, navVars, table, tableVars, fallbackVars,
                   output_file, output_writes>>

\* ------------------------------------------------------------------ run: acquisition, session, authentication
\* lines 30-32: the driver, the browser, the context
Acquire ==
    /\ pc = "start"
    /\ \/ /\ Raise("launch", {"launch"}, {}, {})
          /\ UNCHANGED resVars
       \/ /\ Raise("new_context", {"new_context"}, {}, {})
          /\ browser' = "open"
          /\ context' = context
       \/ /\ Step("load_session", {}, {}, {})
          /\ browser' = "open"
          /\ context' = "open"
    /\ UNCHANGED <<sessVars, called, navVars, table, products, tableVars, fallbackVars,
                   outVars>>

\* lines 58-67: what load_session returns.  The file is read and parsed
\* (lines 60-61) and applied (line 62); any error there is caught (line 65).
LoadSessionResult(file, read_ok, apply_ok) ==
    file = "valid" /\ read_ok /\ apply_ok

\* lines 57-67: whether load_session raises
LoadSessionRaisesUncaught(file, read_ok, apply_ok) ==
    file # "absent" /\ ~(file = "valid" /\ read_ok /\ apply_ok)
LoadSessionRaises(file, read_ok, apply_ok) == FALSE

\* the operation of load_session that failed, if any
LoadSessionFault(file, read_ok, apply_ok) ==
    IF file = "absent" THEN {}
    ELSE IF ~read_ok THEN {"load.open"}
    ELSE IF file = "corrupt" THEN {"load.json"}
    ELSE IF ~apply_ok THEN {"load.set_storage_state"}
    ELSE {}

\* line 34 with lines 57-67
LoadSession ==
    /\ pc = "load_session"
    /\ called' = Append(called, "load_session")
    /\ \E read_ok \in BOOLEAN, apply_ok \in BOOLEAN :
         LET fault == LoadSessionFault(session_file, read_ok, apply_ok)
             result == LoadSessionResult(session_file, read_ok, apply_ok)
         IN  IF LoadSessionRaises(session_file, read_ok, apply_ok)
             THEN /\ Raise("load_session", fault, {}, {})
                  /\ session_loaded' = session_loaded
             ELSE /\ session_loaded' = result
                  /\ Step("new_page", fault, {},
                          IF result THEN {"Session loaded from file"}
                          ELSE IF fault # {} THEN {"Failed to load session"} ELSE {})
    /\ UNCHANGED <<resVars, session_file0, session_file, login_probe, storage_state,
                   session_writes, navVars, table, products, tableVars, fallbackVars,
                   outVars>>

\* lines 35-36: the page, and the base URL
OpenPage ==
    /\ pc = "new_page"
    /\ \/ Raise("new_page", {"new_page"}, {}, {})
       \/ Raise("goto", {"goto"}, {}, {})
       \/ Step("decide", {}, {}, {})
    /\ UNCHANGED <<resVars, sessVars, called, navVars, table, products, tableVars,
                   fallbackVars, outVars>>

\* lines 82-87: is_login_page; the wait's timeout (any error) gives False
IsLoginPage(met) == met = "found"

\* line 38: if not session_loaded or await self.is_login_page(page)
AuthenticatesOnlyUnloaded(loaded, met) == ~loaded
Authenticates(loaded, met) == ~loaded \/ IsLoginPage(met)

\* lines 42-43: else: "Using existing session"; save_session is not called
ExistingSessionSaves == Step("save_session", {}, {}, {"Using existing session"})
ExistingSession == Step("launch_challenge", {}, {}, {"Using existing session"})

\* line 38, and line 43
Decide ==
    /\ pc = "decide"
    /\ \E met \in {"found", "timeout"} :
         /\ login_probe' = IF session_loaded THEN met ELSE "none"
         /\ called' = IF session_loaded THEN Append(called, "is_login_page") ELSE called
         /\ IF Authenticates(session_loaded, met)
            THEN Step("authenticate", {}, {}, {"No valid session found"})
            ELSE ExistingSession
    /\ UNCHANGED <<resVars, session_file0, session_file, session_loaded, storage_state,
                   session_writes, navVars, table, products, tableVars, fallbackVars,
                   outVars>>

\* lines 102-105: except Exception: log, screenshot, raise
AuthSwallow(f) ==
    Step("save_session", {f}, {"auth_error.png"}, {"Authentication failed"})
AuthRaise(f) ==
    Raise("authenticate", {f}, {"auth_error.png"}, {"Authentication failed"})

\* lines 89-105 (called on line 40): the fields never become visible, the
\* fill or the submit fails, or the post-login marker never appears
Authenticate ==
    /\ pc = "authenticate"
    /\ called' = Append(called, "authenticate")
    /\ \/ Step("save_session", {}, {}, {"Authentication successful"})
       \/ \E f \in {"auth.fields", "auth.submit", "auth.marker"} : AuthRaise(f)
    /\ UNCHANGED <<resVars, sessVars, navVars, table, products, tableVars, fallbackVars,
                   outVars>>

\* line 72: if storage_state["cookies"] or storage_state["origins"]
WritesSessionAlways(state) == TRUE
WritesSession(state) == state.cookies \/ state.origins

\* lines 69-80 (called on line 41)
SaveSession ==
    /\ pc = "save_session"
    /\ called' = Append(called, "save_session")
    /\ \/ /\ Step("launch_challenge", {"save.storage_state"}, {}, {"Failed to save session"})
          /\ UNCHANGED <<storage_state, session_file, session_writes>>
       \/ \E c \in BOOLEAN, o \in BOOLEAN, io_ok \in BOOLEAN :
            LET state == [captured |-> TRUE, cookies |-> c, origins |-> o]
            IN  /\ storage_state' = state
                /\ IF WritesSession(state)
                   THEN IF io_ok
                        THEN /\ session_file' = "valid"
                             /\ session_writes' = session_writes + 1
                             /\ Step("launch_challenge", {}, {}, {"Session saved to file"})
                        ELSE /\ UNCHANGED <<session_file, session_writes>>
                             /\ Step("launch_challenge", {"save.open"}, {},
                                     {"Failed to save session"})
                   ELSE /\ UNCHANGED <<session_file, session_writes>>
                        /\ IF io_ok
                           THEN Step("launch_challenge", {}, {"empty_session_debug.png"},
                                     {"Session data is empty"})
                           ELSE Step("launch_challenge", {"save.screenshot"}, {},
                                     {"Session data is empty", "Failed to save session"})
    /\ UNCHANGED <<resVars, session_file0, session_loaded, login_probe, navVars, table,
                   products, tableVars, fallbackVars, outVars>>

\* lines 107-116 (called on line 45): best effort, every error is caught
LaunchChallenge ==
    /\ pc = "launch_challenge"
    /\ called' = Append(called, "launch_challenge")
    /\ \/ Step("navigate", {}, {}, {})
       \/ Step("navigate", {}, {}, {"Launching challenge"})
       \/ Step("navigate", {"launch.click"}, {}, {"Launching challenge", "No launch button found"})
    /\ UNCHANGED <<resVars, sessVars, navVars, table, products, tableVars, fallbackVars,
                   outVars>>

\* ------------------------------------------------------------------ navigate_to_product_table
SettleMs == 2000
FinalSettleMs == 5000

Waited(target, found) == [op |-> "wait_for_selector", target |-> target, ok |-> found, ms |-> 0]
Clicked(target, done) == [op |-> "click", target |-> target, ok |-> done, ms |-> 0]
Settled(target, ms) == [op |-> "wait_for_timeout", target |-> target, ok |-> TRUE, ms |-> ms]

\* lines 162-165: the outer handler
NavRaise(fs, arts) ==
    Raise("navigate_to_product_table", fs, arts \cup {"error_screenshot.png"},
          {"Navigation failed"})

\* lines 121-125, 127-131, 133-137: a required step: locate, click, settle
NavRequiredTolerant(at, target, to) ==
    /\ pc = at
    /\ \/ /\ nav_log' = nav_log \o <<Waited(target, FALSE), Settled(target, SettleMs)>>
          /\ Step(to, {"nav.wait_for_selector"}, {}, {})
       \/ /\ nav_log' = nav_log \o <<Waited(target, TRUE), Clicked(target, TRUE),
                                     Settled(target, SettleMs)>>
          /\ Step(to, {}, {}, {})
    /\ UNCHANGED <<resVars, sessVars, table, products, tableVars, fallbackVars, outVars>>
NavRequired(at, target, to) ==
    /\ pc = at
    /\ \/ /\ nav_log' = Append(nav_log, Waited(target, FALSE))
          /\ NavRaise({"nav.wait_for_selector"}, {})
       \/ /\ nav_log' = nav_log \o <<Waited(target, TRUE), Clicked(target, FALSE)>>
          /\ NavRaise({"nav.click"}, {})
       \/ /\ nav_log' = nav_log \o <<Waited(target, TRUE), Clicked(target, TRUE),
                                     Settled(target, SettleMs)>>
          /\ Step(to, {}, {}, {})
    /\ UNCHANGED <<resVars, sessVars, table, products, tableVars, fallbackVars, outVars>>

NavOpenOptions ==
    /\ NavRequired("navigate", "Open Options", "nav_inventory")
    /\ called' = Append(called, "navigate_to_product_table")

NavInventory ==
    /\ NavRequired("nav_inventory", "Inventory", "nav_detailed_view")
    /\ called' = called

NavDetailedView ==
    /\ NavRequired("nav_detailed_view", "Access Detailed View", "nav_dialog")
    /\ called' = called

\* lines 144-145: except: the dialog step's errors are logged and dropped
DialogErrorRaises(fs) == NavRaise(fs, {})
DialogError(fs) == Step("nav_show_table", fs, {}, {"No detailed view selection dialog found"})

\* lines 139-145: the optional dialog choice; every error is caught, and no
\* settle wait follows
NavDialog ==
    /\ pc = "nav_dialog"
    /\ \/ /\ nav_log' = Append(nav_log, Waited("Detailed View", FALSE))
          /\ DialogError({})
       \/ /\ nav_log' = nav_log \o <<Waited("Detailed View", TRUE),
                                     Clicked("Detailed View", FALSE)>>
          /\ DialogError({"nav.dialog_click"})
       \/ /\ nav_log' = nav_log \o <<Waited("Detailed View", TRUE),
                                     Clicked("Detailed View", TRUE)>>
          /\ Step("nav_show_table", {}, {}, {})
    /\ UNCHANGED <<resVars, sessVars, called, table, products, tableVars, fallbackVars,
                   outVars>>

\* lines 152-158: the inner handler's captures, made before the error goes on
ShowTableDiagnosticsNoDump == {"debug_screenshot.png"}
ShowTableDiagnostics == {"debug_screenshot.png", "page_content.html"}

\* lines 147-161: the final required step, its handler, the last settle wait
NavShowTable ==
    /\ pc = "nav_show_table"
    /\ \/ /\ nav_log' = Append(nav_log, Waited("Show Full Product Table", FALSE))
          /\ NavRaise({"nav.show_table_wait"}, ShowTableDiagnostics)
       \/ /\ nav_log' = nav_log \o <<Waited("Show Full Product Table", TRUE),
                                     Clicked("Show Full Product Table", FALSE)>>
          /\ NavRaise({"nav.show_table_click"}, ShowTableDiagnostics)
       \/ /\ nav_log' = nav_log \o <<Waited("Show Full Product Table", TRUE),
                                     Clicked("Show Full Product Table", TRUE),
                                     Settled("Show Full Product Table", FinalSettleMs)>>
          /\ Step("extract_product_data", {}, {}, {})
    /\ UNCHANGED <<resVars, sessVars, called, table, products, tableVars, fallbackVars,
                   outVars>>

\* ------------------------------------------------------------------ run: the result file, the release
\* lines 230-237 (called on line 49)
SaveToJson ==
    /\ pc = "save_to_json"
    /\ called' = Append(called, "save_to_json")
    /\ \/ /\ output_file' = product_data
          /\ output_writes' = output_writes + 1
          /\ Step("close", {}, {}, {"Data saved"})
       \/ /\ UNCHANGED <<output_file, output_writes>>
          /\ Raise("save_to_json", {"save_to_json.open"}, {}, {"Failed to save data to JSON"})
    /\ UNCHANGED <<resVars, sessVars, navVars, table, products, tableVars, fallbackVars,
                   product_data>>

\* lines 51-55: the explicit closes of the normal path
Close ==
    /\ pc = "close"
    /\ \/ /\ Raise("context.close", {"context.close"}, {}, {})
          /\ UNCHANGED resVars
       \/ /\ Raise("browser.close", {"browser.close"}, {}, {})
          /\ context' = "closed"
          /\ browser' = browser
       \/ /\ Step("exit", {}, {}, {"Extraction complete"})
          /\ context' = "closed"
          /\ browser' = "closed"
    /\ UNCHANGED <<sessVars, called, navVars, table, products, tableVars, fallbackVars,
                   outVars>>

\* What leaving the `async with async_playwright()` block does to a resource
\* the driver still holds: the driver is stopped and takes it down.
ReleasedLeak(resource) == resource
Released(resource) == IF resource = "open" THEN "released" ELSE resource

\* line 30: the end of the async with block, on return and on an error
AsyncWithExit ==
    /\ pc \in {"exit", "unwind"}
    /\ browser' = Released(browser)
    /\ context' = Released(context)
    /\ pc' = IF pc = "exit" THEN "returned" ELSE "raised"
    /\ UNCHANGED <<exc, faults, artifacts, logged, sessVars, called, navVars, table,
                   products, tableVars, fallbackVars, outVars>>

\* ------------------------------------------------------------------ specifications
RowA == << <<"a">>, <<" ", "b", " ">> >>
RowB == << <<"a">> >>
RowC == << <<" ">>, <<"a">>, <<"a">> >>

\* The whole run, against a small page.
RunHeaderLists == { << <<"h">>, <<" ", "k">> >> }
RunRowLists == { <<>>, <<RowA>>, <<RowB, RowC>> }
RunElementLists ==
    { <<>>,
      <<[has_name |-> TRUE, has_price |-> TRUE, err |-> "none"],
        [has_name |-> FALSE, has_price |-> FALSE, err |-> "none"]>>,
      <<[has_name |-> TRUE, has_price |-> FALSE, err |-> "price"]>> }

\* extract_product_data alone, against every page within the bounds.
SiteHeaderLists == { << <<"h">> >>, << <<"h">>, <<" ", "k">> >> }
SiteRowLists == SeqsUpTo({RowA, RowC}, MaxRows)
SiteElementLists == SeqsUpTo(ContainerKinds, MaxContainers)

\* One row of one page, against every header list and every row of cells.
CellHeaderLists == SeqsUpTo(HeaderTexts, MaxHeaders)
CellRowLists == {<<>>} \cup {<<cells>> : cells \in SeqsUpTo(CellTexts, MaxCells)}

NoStorageState == [captured |-> FALSE, cookies |-> FALSE, origins |-> FALSE]

ExtractUnset ==
    /\ table = "unset"
    /\ products = <<>>
    /\ header_text = <<>>
    /\ headers = <<>>
    /\ page_num = 0
    /\ more_pages = FALSE
    /\ shown = <<>>
    /\ next_log = <<>>
    /\ product_elements = <<>>
    /\ element_idx = 0
    /\ element_log = <<>>
    /\ product_data = <<>>
    /\ output_file = <<>>
    /\ output_writes = 0

\* line 29: run is entered; the session file is whatever an earlier run left
Init ==
    /\ pc = "start"
    /\ exc = "none"
    /\ faults = {}
    /\ artifacts = {}
    /\ logged = {}
    /\ browser = "none"
    /\ context = "none"
    /\ session_file0 \in {"absent", "valid", "corrupt"}
    /\ session_file = session_file0
    /\ session_loaded = FALSE
    /\ login_probe = "none"
    /\ storage_state = NoStorageState
    /\ session_writes = 0
    /\ called = <<>>
    /\ nav_log = <<>>
    /\ ExtractUnset

RunReadHeaders == ReadHeaders(RunHeaderLists)
RunProcessPage == ProcessPage(RunRowLists)
RunFallbackQuery == FallbackQuery(RunElementLists)

Next ==
    \/ Acquire
    \/ LoadSession
    \/ OpenPage
    \/ Decide
    \/ Authenticate
    \/ SaveSession
    \/ LaunchChallenge
    \/ NavOpenOptions
    \/ NavInventory
    \/ NavDetailedView
    \/ NavDialog
    \/ NavShowTable
    \/ ExtractProbe
    \/ RunReadHeaders
    \/ RunProcessPage
    \/ NextProbe
    \/ RunFallbackQuery
    \/ FallbackElement
    \/ FallbackFinish
    \/ SaveToJson
    \/ Close
    \/ AsyncWithExit

Spec == Init /\ [][Next]_vars

\* line 47: extract_product_data is entered after a first login (no session
\* file, authentication, a saved session) and a navigation without incident.
ExtractEntry ==
    /\ pc = "extract_product_data"
    /\ exc = "none"
    /\ faults = {}
    /\ artifacts = {}
    /\ logged = {"No valid session found", "Authentication successful",
                 "Session saved to file", "Launching challenge"}
    /\ browser = "open"
    /\ context = "open"
    /\ session_file0 = "absent"
    /\ session_file = "valid"
    /\ session_loaded = FALSE
    /\ login_probe = "none"
    /\ storage_state = [captured |-> TRUE, cookies |-> TRUE, origins |-> TRUE]
    /\ session_writes = 1
    /\ called = <<"load_session", "authenticate", "save_session", "launch_challenge",
                  "navigate_to_product_table">>
    /\ nav_log = <<Waited("Open Options", TRUE), Clicked("Open Options", TRUE),
                   Settled("Open Options", SettleMs),
                   Waited("Inventory", TRUE), Clicked("Inventory", TRUE),
                   Settled("Inventory", SettleMs),
                   Waited("Access Detailed View", TRUE),
                   Clicked("Access Detailed View", TRUE),
                   Settled("Access Detailed View", SettleMs),
                   Waited("Detailed View", TRUE), Clicked("Detailed View", TRUE),
                   Waited("Show Full Product Table", TRUE),
                   Clicked("Show Full Product Table", TRUE),
                   Settled("Show Full Product Table", FinalSettleMs)>>
    /\ ExtractUnset

InitExtract == ExtractEntry

SiteReadHeaders == ReadHeaders(SiteHeaderLists)
SiteProcessPage == ProcessPage(SiteRowLists)
SiteFallbackQuery == FallbackQuery(SiteElementLists)

NextExtract ==
    \/ ExtractProbe
    \/ SiteReadHeaders
    \/ SiteProcessPage
    \/ NextProbe
    \/ SiteFallbackQuery
    \/ FallbackElement
    \/ FallbackFinish

SpecExtract == InitExtract /\ [][NextExtract]_vars

\* lines 179-201 with every await returning: each wait of the loop is bounded
\* by the driver's timeout, so a pending step of extract_product_data is
\* eventually taken.
SpecExtractFair == InitExtract /\ [][NextExtract]_vars /\ WF_vars(NextExtract)

CellReadHeaders == ReadHeaders(CellHeaderLists)
CellProcessPage == ProcessPage(CellRowLists)

NextCell ==
    \/ ExtractProbe
    \/ CellReadHeaders
    \/ CellProcessPage

SpecCell == InitExtract /\ [][NextCell]_vars

\* ------------------------------------------------------------------ properties
Last(s) == s[Len(s)]

RECURSIVE Flatten(_)
Flatten(pages) == IF pages = <<>> THEN <<>> ELSE Head(pages) \o Flatten(Tail(pages))

RECURSIVE SumLen(_)
SumLen(pages) == IF pages = <<>> THEN 0 ELSE Len(Head(pages)) + SumLen(Tail(pages))

\* The header of column i, as read before the loop.
Header(i) == Strip(header_text[i])

\* The last column, among those a row of n cells fills, with column i's header.
LastSame(i, n) ==
    CHOOSE j \in i..Min(n, Len(header_text)) :
        /\ Header(j) = Header(i)
        /\ \A m \in (j + 1)..Min(n, Len(header_text)) : Header(m) # Header(i)

\* rec is the record of a row of cells: one entry per header among the first
\* min(N, H), holding the trimmed text of the last cell under that header.
RecordOfRow(rec, cells) ==
    LET n == Min(Len(cells), Len(header_text))
    IN  /\ Keys(rec) = {Header(i) : i \in 1..n}
        /\ \A j, m \in DOMAIN rec : rec[j].k = rec[m].k => j = m
        /\ \A i \in 1..n : Get(rec, Header(i)) = Strip(cells[LastSame(i, Len(cells))])

\* extract_product_data has returned to run.
ExtractReturned == product_data # <<>>

\* The table of claim C1: every page shown has at least one row, 'Next' was
\* enabled (and the click and the idle wait went through) on every page but
\* the last, where it is absent or disabled; no operation failed otherwise.
PaginatedTable ==
    /\ table = "element"
    /\ faults = {}
    /\ shown # <<>>
    /\ \A p \in DOMAIN shown : Len(shown[p]) >= 1
    /\ Len(next_log) = Len(shown)
    /\ \A p \in 1..(Len(next_log) - 1) : next_log[p].control = "enabled"
    /\ Last(next_log).control \in {"absent", "disabled_bare", "disabled_value"}

\* C1: table mode over P pages of rows[p] >= 1 rows, 'Next' enabled on pages
\* 1..P-1 and absent or disabled on page P: no error leaves
\* extract_product_data, and it returns exactly the sum of rows[p] records,
\* the records of the rows in page order then row order, with page_num = P.
C1_PaginationCount ==
    /\ (table = "element" /\ faults = {} /\ \A p \in DOMAIN shown : Len(shown[p]) >= 1)
          => exc = "none"
    /\ (ExtractReturned /\ PaginatedTable) =>
          /\ product_data[1] = products
          /\ Len(products) = SumLen(shown)
          /\ \A k \in DOMAIN products : RecordOfRow(products[k], Flatten(shown)[k])
          /\ page_num = Len(shown)

C1_Witness ==
    /\ ExtractReturned
    /\ PaginatedTable
    /\ Len(shown) = 2
    /\ Len(shown[1]) = 2
    /\ Len(shown[2]) = 1
    /\ shown[1][1] # shown[1][2]
    /\ Last(next_log).control = "disabled_bare"
    /\ Len(products) = 3

\* A page of the table has been read into records.
PageRead == pc = "next_probe" /\ Len(shown) = 1 /\ Len(shown[1]) = 1

\* C2 as stated: the record's keys are headers, record[header[i]] is the
\* trimmed text of cell i for every i < min(N, H), and a header with index
\* >= N has no entry, for any header list, repeated headers included.
C2_AsStated ==
    PageRead =>
        LET rec == products[1]
            cells == shown[1][1]
            n == Min(Len(cells), Len(headers))
        IN  /\ Keys(rec) \subseteq Range(headers)
            /\ \A i \in 1..n : Get(rec, headers[i]) = Strip(cells[i])
            /\ \A i \in (Len(cells) + 1)..Len(headers) : headers[i] \notin Keys(rec)

\* C2 amended: the headers stay the trimmed header texts read before the
\* loop; the record's keys are exactly the headers of the first min(N, H)
\* columns (so a cell with index >= H adds none), and record[header[i]] is
\* the trimmed text of the last cell j < min(N, H) whose header equals
\* header[i], which is cell i when the headers are distinct.
C2_HeaderCellMapping ==
    /\ pc \in {"process_page", "next_probe"} => headers = StripAll(header_text)
    /\ PageRead => RecordOfRow(products[1], shown[1][1])

C2_Witness ==
    /\ PageRead
    /\ Len(headers) = 2
    /\ headers[1] = headers[2]
    /\ header_text[1] # header_text[2]
    /\ Len(shown[1][1]) = 3
    /\ Strip(shown[1][1][1]) # Strip(shown[1][1][2])
    /\ shown[1][1][2] # Strip(shown[1][1][2])
    /\ Len(products[1]) = 1

\* C3: once the probe has found a table element, the fallback extraction
\* never runs in this call (no container query, no container processed, no
\* placeholder record, no product_page.html), zero data rows or not; the
\* fallback runs only after a probe that found no table.
C3_ModesExclusive ==
    /\ table = "element" =>
          /\ pc \notin {"fallback", "fallback_element"}
          /\ product_elements = <<>> /\ element_idx = 0 /\ element_log = <<>>
          /\ "No table found" \notin logged
          /\ "product_page.html" \notin artifacts
          /\ \A k \in DOMAIN products : products[k] # Placeholder
          /\ "fallback.query_selector_all" \notin faults
    /\ (pc \in {"fallback", "fallback_element"} \/ element_idx > 0
        \/ "product_page.html" \in artifacts) => table = "None"

C3_Witness ==
    /\ table = "element"
    /\ shown = << <<>> >>
    /\ pc = "unwind"
    /\ exc = "extract_product_data"
    /\ products = <<>>

Called(method) == method \in Range(called)

\* save_session captured a state with no cookies and no origins.
CapturedEmpty ==
    storage_state.captured /\ ~storage_state.cookies /\ ~storage_state.origins

\* C4: when save_session captures a state whose cookies and origins are both
\* empty, the session file is not written (it stays as it was, or absent),
\* the warning is logged, no error leaves save_session and the run goes on
\* to the challenge launcher; the file is written only when the captured
\* state has cookies or origins.
C4_EmptySessionGuard ==
    /\ exc # "save_session"
    /\ CapturedEmpty =>
          /\ session_writes = 0
          /\ session_file = session_file0
          /\ "Session data is empty" \in logged
          /\ "Session saved to file" \notin logged
          /\ pc = "launch_challenge" \/ Called("launch_challenge")
    /\ (session_writes > 0 \/ session_file # session_file0) =>
          /\ storage_state.captured
          /\ storage_state.cookies \/ storage_state.origins

C4_Witness ==
    /\ CapturedEmpty
    /\ "save.screenshot" \in faults
    /\ session_file0 = "absent"
    /\ session_file = "absent"
    /\ Called("launch_challenge")
    /\ pc = "navigate"

\* run has returned, or the error has left it.
RunLeft == pc \in {"returned", "raised"}

\* C5: on every exit path of run, normal or by an error of any method, the
\* browser and the context acquired at its start are no longer open once
\* run has returned or the error has left it.
C5_GuaranteedRelease ==
    RunLeft =>
        /\ browser \in {"none", "closed", "released"}
        /\ context \in {"none", "closed", "released"}
        /\ context = "none" => exc \in {"launch", "new_context"}

C5_Witness ==
    /\ pc = "raised"
    /\ exc = "extract_product_data"
    /\ browser = "released"
    /\ context = "released"

\* The wait for 'Show Full Product Table' timed out.
ShowTableNeverVisible ==
    /\ nav_log # <<>>
    /\ Last(nav_log) = Waited("Show Full Product Table", FALSE)

\* C6: when the 'Show Full Product Table' affordance does not become visible
\* within its wait, an error leaves navigate_to_product_table, the extraction
\* is never attempted and nothing is saved, and by the time the error leaves
\* the navigator a diagnostic screenshot and the raw HTML dump are written.
C6_ShowTableFailure ==
    ShowTableNeverVisible =>
        /\ pc \in {"unwind", "raised"}
        /\ exc = "navigate_to_product_table"
        /\ "debug_screenshot.png" \in artifacts
        /\ "page_content.html" \in artifacts
        /\ ~Called("extract_product_data")
        /\ ~Called("save_to_json")
        /\ table = "unset"
        /\ output_writes = 0

C6_Witness ==
    /\ ShowTableNeverVisible
    /\ pc = "raised"
    /\ Waited("Detailed View", FALSE) \in Range(nav_log)
    /\ {"debug_screenshot.png", "page_content.html", "error_screenshot.png"} \subseteq artifacts

\* Line 38 has been evaluated.
Decided == logged \cap {"No valid session found", "Using existing session"} # {}

\* C7: authenticate is invoked exactly when, at line 38, load_session had
\* returned false or the login-page probe met a login form; a probe that
\* times out counts as no login page and raises nothing.  With no session
\* file load_session returns false and authenticate is invoked; when it
\* succeeds save_session is the next method invoked, and it writes the
\* session file if the state it captures is non-empty (and the write itself
\* does not fail).
C7_AuthenticationDecision ==
    /\ Called("authenticate") => (~session_loaded \/ login_probe = "found")
    /\ (Decided /\ (~session_loaded \/ login_probe = "found"))
          => (pc = "authenticate" \/ Called("authenticate"))
    /\ (Decided /\ session_loaded /\ login_probe = "timeout")
          => (~Called("authenticate") /\ pc # "authenticate"
              /\ "Using existing session" \in logged)
    /\ (session_file0 = "absent" /\ Called("load_session")) => ~session_loaded
    /\ \A i \in DOMAIN called :
          called[i] = "authenticate" =>
              /\ i < Len(called) => called[i + 1] = "save_session"
              /\ i = Len(called) =>
                    \/ pc = "save_session" /\ exc = "none"
                    \/ pc \in {"unwind", "raised"} /\ exc = "authenticate"
    /\ (Called("save_session") /\ storage_state.captured
        /\ (storage_state.cookies \/ storage_state.origins)
        /\ "save.open" \notin faults)
          => (session_file = "valid" /\ session_writes = 1)

C7_Witness ==
    /\ session_file0 = "absent"
    /\ called = <<"load_session", "authenticate", "save_session">>
    /\ storage_state.cookies
    /\ ~storage_state.origins
    /\ session_file = "valid"
    /\ session_writes = 1
    /\ pc = "launch_challenge"

LoadFaults == {"load.open", "load.json", "load.set_storage_state"}

\* C8: no error leaves load_session; it returns true exactly when the session
\* file existed, was read and parsed, and was applied to the context, and
\* false when the file is absent or reading, parsing or applying it fails
\* (which is logged); after a false the run goes on, and at line 38 it takes
\* the authentication branch without probing.
C8_LoadSessionNeverRaises ==
    /\ exc # "load_session"
    /\ Called("load_session") =>
          /\ session_loaded <=> (session_file0 = "valid" /\ faults \cap LoadFaults = {})
          /\ faults \cap LoadFaults # {} => "Failed to load session" \in logged
          /\ pc \in {"unwind", "raised"} /\ Last(called) = "load_session"
                => exc \in {"new_page", "goto"}
    /\ (Decided /\ ~session_loaded) =>
          /\ pc = "authenticate" \/ Called("authenticate")
          /\ ~Called("is_login_page")

C8_Witness ==
    /\ session_file0 = "valid"
    /\ "load.set_storage_state" \in faults
    /\ ~session_loaded
    /\ Called("authenticate")
    /\ ~Called("is_login_page")

\* Processing container e raises before its record is appended.
ContainerFails(e) ==
    e.err \in {"name", "price"} \/ (e.err = "content" /\ ~e.has_name /\ ~e.has_price)

Processed == 1..(element_idx - 1)
Yielding == {i \in Processed : ~ContainerFails(product_elements[i])}
Rank(i) == Cardinality({j \in Yielding : j <= i})

\* rec is the record of container i, which is e.
RecordOfContainer(rec, e, i) ==
    /\ Keys(rec) \subseteq {NameKey, PriceKey, ContentKey}
    /\ Len(rec) = Cardinality(Keys(rec))
    /\ NameKey \in Keys(rec) <=> e.has_name
    /\ PriceKey \in Keys(rec) <=> e.has_price
    /\ ContentKey \in Keys(rec) <=> (~e.has_name /\ ~e.has_price)
    /\ e.has_name => Get(rec, NameKey) = Mark("n", i)
    /\ e.has_price => Get(rec, PriceKey) = Mark("p", i)
    /\ (~e.has_name /\ ~e.has_price) => Get(rec, ContentKey) = Mark("t", i)

\* C9: in fallback mode every container processed without error yields
\* exactly one record, in container order, with 'Name' iff a name-like
\* sub-element matched, 'Price' iff a price-like one matched and 'Content'
\* (the container's text) iff neither did; a container whose processing
\* raises yields no record, raises nothing out of the loop, and the
\* containers after it are still processed.
C9_FallbackRecordShape ==
    /\ (table = "None" /\ (pc = "fallback_element" \/ (ExtractReturned /\ Yielding # {}))) =>
          /\ Len(products) = Cardinality(Yielding)
          /\ \A i \in Yielding :
                RecordOfContainer(products[Rank(i)], product_elements[i], i)
          /\ element_log = [i \in Processed |-> ~ContainerFails(product_elements[i])]
    /\ (table = "None" /\ ExtractReturned) => element_idx = Len(product_elements) + 1
    /\ (table = "None" /\ exc # "none") => faults # {}

C9_Witness ==
    /\ table = "None"
    /\ ExtractReturned
    /\ Len(product_elements) = 2
    /\ product_elements[1] = [has_name |-> TRUE, has_price |-> FALSE, err |-> "price"]
    /\ product_elements[2] = [has_name |-> FALSE, has_price |-> FALSE, err |-> "none"]
    /\ products = << <<[k |-> ContentKey, v |-> Mark("t", 2)]>> >>

\* C10: the result file is written at most once per run and only after
\* extract_product_data has returned (what is written is what it returned);
\* when an error leaves authenticate, navigate_to_product_table or
\* extract_product_data, save_to_json is never called and no result file is
\* written, however many records had been accumulated.
C10_NoPartialSalvage ==
    /\ output_writes <= 1
    /\ Called("save_to_json") => (ExtractReturned /\ Called("extract_product_data"))
    /\ output_writes = 1 => (Called("save_to_json") /\ output_file = product_data)
    /\ output_writes = 0 => output_file = <<>>
    /\ exc \in {"authenticate", "navigate_to_product_table", "extract_product_data"} =>
          /\ ~Called("save_to_json")
          /\ ~ExtractReturned
          /\ output_writes = 0
          /\ output_file = <<>>

C10_Witness ==
    /\ pc = "raised"
    /\ exc = "extract_product_data"
    /\ table = "element"
    /\ Len(shown) = 2
    /\ Len(products) >= 2
    /\ output_writes = 0
    /\ output_file = <<>>

Count(method) == Cardinality({i \in DOMAIN called : called[i] = method})

AuthFaults == {"auth.fields", "auth.submit", "auth.marker"}

\* C11: when the email/password fields never become visible or the
\* post-login marker never appears, authenticate writes its diagnostic
\* screenshot and the error leaves it; authenticate is attempted at most
\* once per run, and after the error none of save_session,
\* launch_challenge, navigate_to_product_table, extract_product_data and
\* save_to_json is executed.
C11_AuthenticationFatal ==
    /\ Count("authenticate") <= 1
    /\ faults \cap AuthFaults # {} =>
          /\ exc = "authenticate"
          /\ pc \in {"unwind", "raised"}
          /\ "auth_error.png" \in artifacts
          /\ "Authentication failed" \in logged
          /\ Last(called) = "authenticate"
          /\ ~Called("save_session") /\ ~Called("launch_challenge")
          /\ ~Called("navigate_to_product_table") /\ ~Called("extract_product_data")
          /\ ~Called("save_to_json")
          /\ session_writes = 0 /\ nav_log = <<>> /\ table = "unset" /\ output_writes = 0
    /\ exc = "authenticate" => faults \cap AuthFaults # {}

C11_Witness ==
    /\ pc = "raised"
    /\ exc = "authenticate"
    /\ "auth.marker" \in faults
    /\ session_loaded
    /\ login_probe = "found"
    /\ called = <<"load_session", "is_login_page", "authenticate">>

\* C12: whenever the table probe finds no table, extract_product_data does
\* not raise, whatever the page driver or the dump write do during the
\* fallback processing, and what it returns is a non-empty list.
C12_AsStated ==
    table = "None" =>
       /\ exc # "extract_product_data"
       /\ "extraction_error.png" \notin artifacts
       /\ ExtractReturned => product_data[1] # <<>>

LoopLeft == pc \in {"save_to_json", "unwind"}

\* the while loop of lines 179-200 goes round once more
LoopContinues == NextProbe /\ pc' = "process_page"

RequiredTargets == <<"Open Options", "Inventory", "Access Detailed View",
                     "Show Full Product Table">>

\* the place of a target in the navigator's sequence of steps
StepRank(target) ==
    CASE target = "Open Options" -> 1
      [] target = "Inventory" -> 2
      [] target = "Access Detailed View" -> 3
      [] target = "Detailed View" -> 4
      [] target = "Show Full Product Table" -> 5

NavReturned == pc = "extract_product_data" \/ Called("extract_product_data")

\* the place of an operation within its step
OpRank(op) ==
    CASE op = "wait_for_selector" -> 1
      [] op = "click" -> 2
      [] op = "wait_for_timeout" -> 3

\* event e belongs to an earlier step than event f, or to the same step and
\* to an earlier operation of it: in a log ordered this way no operation on a
\* target occurs twice
Earlier(e, f) ==
    \/ StepRank(e.target) < StepRank(f.target)
    \/ StepRank(e.target) = StepRank(f.target) /\ OpRank(e.op) < OpRank(f.op)

\* an event after which a step is over without an error: its settle wait, or,
\* for the dialog choice, its timed-out locate or its click
StepOver(e) ==
    \/ e.op = "wait_for_timeout"
    \/ e.target = "Detailed View" /\ (e.op = "click" \/ ~e.ok)

\* C14: the navigator's clicks follow the fixed order Open Options,
\* Inventory, Access Detailed View, the optional dialog choice, Show Full
\* Product Table, each located and clicked at most once; a step's locate
\* begins only when the step before it is over; the navigator returns only
\* with the four required affordances found and clicked and the final settle
\* wait done; a required affordance that is not found ends the navigator
\* with an error and no later click.
C14_NavigatorOrder ==
    /\ \A i \in 1..(Len(nav_log) - 1) : Earlier(nav_log[i], nav_log[i + 1])
    /\ \A i \in DOMAIN nav_log :
          /\ nav_log[i].op = "wait_for_selector" /\ i > 1 =>
                /\ StepOver(nav_log[i - 1])
                /\ StepRank(nav_log[i - 1].target) = StepRank(nav_log[i].target) - 1
          /\ nav_log[i].op = "wait_for_selector" /\ i = 1 => nav_log[i].target = "Open Options"
          /\ nav_log[i].op = "click" =>
                i > 1 /\ nav_log[i - 1] = Waited(nav_log[i].target, TRUE)
    /\ NavReturned =>
          /\ \A r \in DOMAIN RequiredTargets :
                \E i \in DOMAIN nav_log : nav_log[i] = Clicked(RequiredTargets[r], TRUE)
          /\ Last(nav_log) = Settled("Show Full Product Table", FinalSettleMs)
          /\ exc # "navigate_to_product_table"
    /\ \A i \in DOMAIN nav_log :
          /\ nav_log[i].target # "Detailed View"
          /\ ~nav_log[i].ok
          => /\ i = Len(nav_log)
             /\ exc = "navigate_to_product_table"
             /\ "error_screenshot.png" \in artifacts
             /\ ~NavReturned

C14_Witness ==
    /\ pc = "extract_product_data"
    /\ Len(nav_log) = 14
    /\ nav_log[11] = Clicked("Detailed View", TRUE)
    /\ nav_log[13] = Clicked("Show Full Product Table", TRUE)

RequiredNavFaults == {"nav.wait_for_selector", "nav.click", "nav.show_table_wait",
                      "nav.show_table_click"}

DialogTried == \E i \in DOMAIN nav_log : nav_log[i].target = "Detailed View"

\* C15: whether the dialog's Detailed View option appears and is clicked,
\* never appears, or fails while being clicked, the navigator does not raise
\* at that step and goes on to locate Show Full Product Table; the navigator
\* raises only when a required step failed.
C15_OptionalDialog ==
    /\ DialogTried =>
          \/ pc = "nav_show_table" /\ exc = "none"
          \/ \E i \in DOMAIN nav_log :
                /\ nav_log[i].op = "wait_for_selector"
                /\ nav_log[i].target = "Show Full Product Table"
                /\ nav_log[i - 1].target = "Detailed View"
    /\ exc = "navigate_to_product_table" =>
          /\ faults \cap RequiredNavFaults # {}
          /\ ~Last(nav_log).ok
          /\ Last(nav_log).target # "Detailed View"
    /\ NavReturned <=>
          /\ \A r \in DOMAIN RequiredTargets :
                Clicked(RequiredTargets[r], TRUE) \in Range(nav_log)
          /\ Settled("Show Full Product Table", FinalSettleMs) \in Range(nav_log)

C15_Witness ==
    /\ pc = "extract_product_data"
    /\ "nav.dialog_click" \in faults
    /\ Clicked("Detailed View", FALSE) \in Range(nav_log)
    /\ exc = "none"

\* C16: the Next control is clicked only when it is visible and carries no
\* disabled attribute; when it is absent, or carries a disabled attribute of
\* any value, the empty one included, or the probe raises, the loop ends
\* without a click and without an error.
C16_AsStated ==
    \A p \in DOMAIN next_log :
        next_log[p].control # "enabled" => next_log[p].click = "none"

\* table mode met a page with no visible data row, or a row or cell read raised
TableFailed ==
    /\ table = "element"
    /\ \/ "rows.read" \in faults
       \/ shown # <<>> /\ Last(shown) = <<>>

\* C17: once table mode is chosen, an error while waiting for or reading the
\* rows and cells, a page on which no data row becomes visible included,
\* makes extract_product_data take its diagnostic screenshot and raise; it
\* returns nothing, whatever was accumulated from the pages before.
C17_TableFailureAborts ==
    /\ TableFailed =>
          /\ exc = "extract_product_data"
          /\ pc = "unwind"
          /\ "extraction_error.png" \in artifacts
          /\ "Data extraction failed" \in logged
          /\ ~ExtractReturned
          /\ Len(next_log) = Len(shown) - 1
    /\ table = "element" /\ exc = "extract_product_data" =>
          TableFailed \/ "headers.query_selector_all" \in faults

C17_Witness ==
    /\ TableFailed
    /\ pc = "unwind"
    /\ Len(shown) = 2
    /\ Last(shown) = <<>>
    /\ Len(products) = MaxRows
    /\ product_data = <<>>

\* C18: every navigation step, the optional dialog step included, is
\* followed by a fixed settle wait that is over before the next step's
\* locate begins and before the navigator returns, whether or not the step's
\* affordance was clicked.
C18_AsStated ==
    /\ \A i \in DOMAIN nav_log :
          nav_log[i].op = "wait_for_selector" /\ i > 1 =>
             /\ nav_log[i - 1].op = "wait_for_timeout"
             /\ StepRank(nav_log[i - 1].target) = StepRank(nav_log[i].target) - 1
    /\ NavReturned => Last(nav_log).op = "wait_for_timeout"

\* method a was called, and method b only after it
CalledBefore(a, b) ==
    \A j \in DOMAIN called :
        called[j] = b => \E i \in 1..(j - 1) : called[i] = a

\* C19: in one run the session file is written at most once, and only after
\* authenticate has returned in that run; when the existing session is used
\* (a session was loaded and no login form was detected), and whenever
\* authenticate raises, the session file is what it was at the start.
C19_SessionWriteDiscipline ==
    /\ session_writes <= 1
    /\ Count("save_session") <= 1
    /\ session_writes = 1 =>
          /\ "Authentication successful" \in logged
          /\ Called("authenticate") /\ Called("save_session")
          /\ CalledBefore("authenticate", "save_session")
          /\ faults \cap AuthFaults = {}
    /\ session_writes = 0 => session_file = session_file0
    /\ "Using existing session" \in logged =>
          /\ session_loaded /\ login_probe = "timeout"
          /\ ~Called("authenticate") /\ ~Called("save_session")
          /\ session_writes = 0
          /\ session_file = session_file0
          /\ ~storage_state.captured
    /\ exc = "authenticate" =>
          /\ session_writes = 0
          /\ session_file = session_file0
          /\ ~storage_state.captured

C19_Witness ==
    /\ pc = "returned"
    /\ "Using existing session" \in logged
    /\ session_file0 = "valid"
    /\ session_file = "valid"
    /\ session_writes = 0
    /\ output_writes = 1

\* the last Next probe found an enabled control, and the click on it or the
\* idle wait after it failed
NextFailed ==
    /\ next_log # <<>>
    /\ Last(next_log).control = "enabled"
    /\ Last(next_log).click \in {"click_error", "idle_error"}

GoodClicks == Cardinality({p \in DOMAIN next_log : next_log[p].click = "ok"})

\* C20: in table mode, when the click on an enabled Next or the idle wait
\* after it fails, extract_product_data does not raise and takes no
\* diagnostic screenshot: the loop ends, the page counter keeps its value,
\* and the records accumulated so far are returned and go to the result
\* file.  The page counter is always 1 plus the number of clicks followed by
\* a successful idle wait.
C20_NextFailureEndsLoop ==
    /\ NextFailed =>
          /\ ExtractReturned
          /\ exc # "extract_product_data"
          /\ "extraction_error.png" \notin artifacts
          /\ ~more_pages
          /\ Len(shown) = Len(next_log)
          /\ product_data[1] = products
          /\ products = Flatten([p \in DOMAIN shown |-> PageProducts(headers, shown[p])])
          /\ pc = "save_to_json" \/ Called("save_to_json")
          /\ output_writes = 1 => output_file = product_data
          /\ faults \cap {"next.click", "next.wait_for_load_state"} # {}
    /\ faults \cap {"next.click", "next.wait_for_load_state"} # {} => NextFailed
    /\ table = "element" /\ page_num >= 1 => page_num = 1 + GoodClicks

C20_Witness ==
    /\ NextFailed
    /\ pc = "returned"
    /\ Len(next_log) = 2
    /\ next_log[1].click = "ok"
    /\ next_log[2].click = "idle_error"
    /\ page_num = 2
    /\ output_writes = 1
    /\ Len(output_file[1]) >= 2
====
